---- MODULE Spec2Model ----
(***************************************************************************)
(* Financial report validator (scripts/financial_validator.py) and the     *)
(* batch driver around it (scripts/batch_validator.py).                    *)
(*                                                                         *)
(* Text is a sequence of one-character strings.  Amounts are Python floats  *)
(* in the code; here they are exact integers counted in hundredths of a    *)
(* currency unit, so 1,200 is 120000 and the $10 tolerance is 1000.  The    *)
(* lines of the model carry at most two fractional digits.                 *)
(***************************************************************************)
EXTENDS Integers, Sequences, FiniteSets, TLC

VARIABLES
    raw_text,        \* process_financial_report: the text the OCR returned
    financial_data,  \* the AmountLines extract_financial_amounts returned
    structure,       \* the result of identify_data_rows_and_total
    validation,      \* the result of validate_financial_calculations
    outcome,         \* what process_financial_report returned
    calls,           \* the methods process_financial_report has called so far
    pc,              \* position inside process_financial_report
    images,          \* the image directory: file -> what the OCR yields for it
    image_files,     \* process_all_images: the list find_all_images returned
    idx,             \* process_all_images: number of images already looped over
    results,         \* BatchValidator.results
    report,          \* the statistics of the last generate_consolidated_report
    runs,            \* number of process_all_images calls started
    results_at_start,\* len(self.results) when the current loop began
    bpc              \* position inside process_all_images

vars == <<raw_text, financial_data, structure, validation, outcome, calls, pc,
          images, image_files, idx, results, report, runs, results_at_start, bpc>>

reportVars == <<raw_text, financial_data, structure, validation, outcome, calls, pc>>
batchVars == <<images, image_files, idx, results, report, runs, results_at_start, bpc>>

----------------------------------------------------------------------------
(* Characters and strings                                                  *)

Digits == <<"0", "1", "2", "3", "4", "5", "6", "7", "8", "9">>
UpperCase == <<"A", "B", "C", "D", "E", "F", "G", "H", "I", "J", "K", "L", "M",
               "N", "O", "P", "Q", "R", "S", "T", "U", "V", "W", "X", "Y", "Z">>
LowerCase == <<"a", "b", "c", "d", "e", "f", "g", "h", "i", "j", "k", "l", "m",
               "n", "o", "p", "q", "r", "s", "t", "u", "v", "w", "x", "y", "z">>

Range(s) == {s[i] : i \in DOMAIN s}

IsDigit(c) == c \in Range(Digits)
DigitVal(c) == (CHOOSE i \in DOMAIN Digits : Digits[i] = c) - 1
\* \w of the re module: letters, digits and the underscore
IsWord(c) == c \in Range(Digits) \cup Range(UpperCase) \cup Range(LowerCase) \cup {"_"}
\* the characters str.strip() removes
IsSpace(c) == c \in {" ", "\t", "\r", "\f"}

\* str.lower(), one character
LowerChar(c) ==
    IF c \in Range(UpperCase)
    THEN LowerCase[CHOOSE i \in DOMAIN UpperCase : UpperCase[i] = c]
    ELSE c
Lower(s) == [i \in DOMAIN s |-> LowerChar(s[i])]

\* the Python test  sub in s  on strings
Contains(s, sub) ==
    \E i \in 0..(Len(s) - Len(sub)) :
        \A k \in 1..Len(sub) : s[i + k] = sub[k]

\* str.strip()
RECURSIVE LStrip(_)
LStrip(s) == IF s # <<>> /\ IsSpace(Head(s)) THEN LStrip(Tail(s)) ELSE s
RECURSIVE RStrip(_)
RStrip(s) ==
    IF s # <<>> /\ IsSpace(s[Len(s)]) THEN RStrip(SubSeq(s, 1, Len(s) - 1)) ELSE s
Strip(s) == RStrip(LStrip(s))

\* text.split('\n'): always at least one piece, '' splits into ['']
RECURSIVE SplitFrom(_, _)
SplitFrom(s, cur) ==
    IF s = <<>> THEN <<cur>>
    ELSE IF Head(s) = "\n" THEN <<cur>> \o SplitFrom(Tail(s), <<>>)
    ELSE SplitFrom(Tail(s), Append(cur, Head(s)))
SplitLines(text) == SplitFrom(text, <<>>)

\* '\n'.join(lines)
RECURSIVE JoinLines(_)
JoinLines(ls) ==
    IF ls = <<>> THEN <<>>
    ELSE IF Len(ls) = 1 THEN ls[1]
    ELSE ls[1] \o <<"\n">> \o JoinLines(Tail(ls))

\* re.sub(r'[$,]', '', match) and re.sub(r'[,]', '', match)
RECURSIVE Remove(_, _)
Remove(s, chars) ==
    IF s = <<>> THEN <<>>
    ELSE IF Head(s) \in chars THEN Remove(Tail(s), chars)
    ELSE <<Head(s)>> \o Remove(Tail(s), chars)

----------------------------------------------------------------------------
(* float() on the cleaned token: digits, optionally a point and digits.    *)

NoValue == -1

RECURSIVE DigitsValue(_)
DigitsValue(s) ==
    IF s = <<>> THEN 0 ELSE 10 * DigitsValue(SubSeq(s, 1, Len(s) - 1)) + DigitVal(s[Len(s)])

PointAt(s) == IF \E i \in DOMAIN s : s[i] = "." THEN CHOOSE i \in DOMAIN s : s[i] = "." ELSE 0

\* the value in hundredths, NoValue where float() raises ValueError
ParseFloat(s) ==
    LET p == PointAt(s)
        whole == IF p = 0 THEN s ELSE SubSeq(s, 1, p - 1)
        frac == IF p = 0 THEN <<>> ELSE SubSeq(s, p + 1, Len(s))
        hundredths == IF Len(frac) = 0 THEN 0
                      ELSE IF Len(frac) = 1 THEN 10 * DigitVal(frac[1])
                      ELSE 10 * DigitVal(frac[1]) + DigitVal(frac[2])
    IN  IF \/ Len(whole) + Len(frac) = 0
           \/ \E i \in DOMAIN whole : ~IsDigit(whole[i])
           \/ \E i \in DOMAIN frac : ~IsDigit(frac[i])
        THEN NoValue
        ELSE 100 * DigitsValue(whole) + hundredths

----------------------------------------------------------------------------
(* The two patterns of extract_financial_amounts, as re.findall applies    *)
(* them: leftmost match, greedy with backtracking, non-overlapping.        *)

AmountChars == Range(Digits) \cup {","}

\* length of the longest run of characters of cs that starts at position i
Run(line, i, cs) ==
    CHOOSE n \in 0..(Len(line) - i + 1) :
        /\ \A k \in 0..(n - 1) : line[i + k] \in cs
        /\ (i + n > Len(line) \/ line[i + n] \notin cs)

WordAt(line, p) == p \in DOMAIN line /\ IsWord(line[p])
\* \b between the characters at p-1 and p
Boundary(line, p) == WordAt(line, p - 1) # WordAt(line, p)

\* r'\$[\d,]+\.?\d*' tried at position i: the length matched, 0 for no match
DollarMatchLen(line, i) ==
    IF line[i] # "$" THEN 0
    ELSE LET m == Run(line, i + 1, AmountChars)
             k == IF i + 1 + m <= Len(line) /\ line[i + 1 + m] = "." THEN 1 ELSE 0
             d == Run(line, i + 1 + m + k, Range(Digits))
         IN  IF m = 0 THEN 0 ELSE 1 + m + k + d

\* r'\b[\d,]+\.?\d*\b' tried at position i: the ways <<m, k, d>> to match, m
\* characters for [\d,]+, k for \.? and d for \d*
PlainMatches(line, i) ==
    IF ~Boundary(line, i) THEN {}
    ELSE {t \in (1..Run(line, i, AmountChars)) \X {0, 1} \X (0..Len(line)) :
            /\ t[2] = 1 => (i + t[1] <= Len(line) /\ line[i + t[1]] = ".")
            /\ t[3] <= Run(line, i + t[1] + t[2], Range(Digits))
            /\ Boundary(line, i + t[1] + t[2] + t[3])}

\* the engine's preference: longest [\d,]+ first, then \.? taken, then longest \d*
Preferred(a, b) ==
    \/ a[1] > b[1]
    \/ a[1] = b[1] /\ a[2] > b[2]
    \/ a[1] = b[1] /\ a[2] = b[2] /\ a[3] >= b[3]

PlainMatchLen(line, i) ==
    LET ms == PlainMatches(line, i)
    IN  IF ms = {} THEN 0
        ELSE LET t == CHOOSE a \in ms : \A b \in ms : Preferred(a, b)
             IN  t[1] + t[2] + t[3]

\* re.findall(r'\$[\d,]+\.?\d*', line), scanning from position i
RECURSIVE FindDollarFrom(_, _)
FindDollarFrom(line, i) ==
    IF i > Len(line) THEN <<>>
    ELSE LET n == DollarMatchLen(line, i)
         IN  IF n > 0 THEN <<SubSeq(line, i, i + n - 1)>> \o FindDollarFrom(line, i + n)
             ELSE FindDollarFrom(line, i + 1)
money_with_dollar(line) == FindDollarFrom(line, 1)

\* re.findall(r'\b[\d,]+\.?\d*\b', line), scanning from position i
RECURSIVE FindPlainFrom(_, _)
FindPlainFrom(line, i) ==
    IF i > Len(line) THEN <<>>
    ELSE LET n == PlainMatchLen(line, i)
         IN  IF n > 0 THEN <<SubSeq(line, i, i + n - 1)>> \o FindPlainFrom(line, i + n)
             ELSE FindPlainFrom(line, i + 1)
plain_numbers(line) == FindPlainFrom(line, 1)

----------------------------------------------------------------------------
(* extract_financial_amounts                                               *)

\* threshold of the second pattern, in currency units
MinPlainAmount == 1000

Max(S) == CHOOSE x \in S : \A y \in S : y <= x

RECURSIVE Sum(_)
Sum(s) == IF s = <<>> THEN 0 ELSE Head(s) + Sum(Tail(s))

\* list(set(amounts)): every value once.  Python leaves the order of the list
\* to the hashes; nothing reads the order, and here it is ascending.
Unique(amounts) ==
    LET S == Range(amounts)
    IN  [i \in 1..Cardinality(S) |-> CHOOSE x \in S : Cardinality({y \in S : y < x}) = i - 1]

Abs(x) == IF x < 0 THEN -x ELSE x

\* pattern 1: the values of the $ tokens in the order found, only those > 0
DollarAmounts(line) ==
    LET ms == money_with_dollar(line)
        vals == [j \in DOMAIN ms |-> ParseFloat(Remove(ms[j], {"$", ","}))]
    IN  SelectSeq(vals, LAMBDA v : v # NoValue /\ v > 0)

\* variant of PlainAmounts: the >= 1000 test replaced by the > 0 test of pattern 1
PlainAmountsAnyPositive(line) ==
    LET ms == plain_numbers(line)
        vals == [j \in DOMAIN ms |-> ParseFloat(Remove(ms[j], {","}))]
    IN  SelectSeq(vals, LAMBDA v : v # NoValue /\ v > 0)

\* pattern 2: the values of the bare tokens in the order found, only those >= 1000
PlainAmounts(line) ==
    LET ms == plain_numbers(line)
        vals == [j \in DOMAIN ms |-> ParseFloat(Remove(ms[j], {","}))]
    IN  SelectSeq(vals, LAMBDA v : v # NoValue /\ v >= MinPlainAmount * 100)

\* variant of FoundAmounts: pattern 2 is tried on every line
FoundByBothPatterns(line) == DollarAmounts(line) \o PlainAmounts(line)

\* the list amounts of one stripped line before duplicates are removed:
\* pattern 2 is tried only  if not amounts
FoundAmounts(line) ==
    IF DollarAmounts(line) # <<>> THEN DollarAmounts(line) ELSE PlainAmounts(line)

\* variant of LineAmounts: the duplicates are kept
LineAmountsWithDuplicates(line) == FoundAmounts(line)

\* amounts of one stripped line after list(set(amounts))
LineAmounts(line) == Unique(FoundAmounts(line))

Keywords == {<<"t", "o", "t", "a", "l">>, <<"s", "u", "m", "a">>,
             <<"s", "u", "b", "t", "o", "t", "a", "l">>}
HasKeyword(line) == \E kw \in Keywords : Contains(Lower(line), kw)

\* variant of IsTotalLine: a keyword on any earlier line sets the hint
IsTotalLineAfterKeyword(lines, line_num) ==
    \/ HasKeyword(Strip(lines[line_num + 1]))
    \/ \E k \in 1..line_num : HasKeyword(lines[k])

\* is_total_line of the line at 0-based index line_num
IsTotalLine(lines, line_num) ==
    \/ HasKeyword(Strip(lines[line_num + 1]))
    \/ line_num > 0 /\ HasKeyword(lines[line_num])

\* the loop of extract_financial_amounts from 0-based index line_num on
RECURSIVE ExtractFrom(_, _)
ExtractFrom(lines, line_num) ==
    IF line_num >= Len(lines) THEN <<>>
    ELSE LET line == Strip(lines[line_num + 1])
             amounts == LineAmounts(line)
         IN  IF line = <<>> \/ amounts = <<>> THEN ExtractFrom(lines, line_num + 1)
             ELSE <<[line_number |-> line_num,
                     text |-> line,
                     amounts |-> amounts,
                     is_total |-> IsTotalLine(lines, line_num),
                     max_amount |-> Max(Range(amounts))]>>
                  \o ExtractFrom(lines, line_num + 1)

extract_financial_amounts(text) == ExtractFrom(SplitLines(text), 0)

----------------------------------------------------------------------------
(* identify_data_rows_and_total                                            *)

\* tolerance of both comparisons, in currency units
Tolerance == 10

\* variant of FirstWithMax: the loop without break, the last such item is kept
LastWithMax(fd, largest_amount) ==
    fd[CHOOSE i \in DOMAIN fd :
          /\ fd[i].max_amount = largest_amount
          /\ \A j \in DOMAIN fd : j > i => fd[j].max_amount # largest_amount]

\* variant of FirstWithMax: a line with the keyword hint is taken before the
\* line with the largest amount
HintedBeforeLargest(fd, largest_amount) ==
    IF \E i \in DOMAIN fd : fd[i].is_total
    THEN fd[CHOOSE i \in DOMAIN fd :
               fd[i].is_total /\ \A j \in DOMAIN fd : j < i => ~fd[j].is_total]
    ELSE fd[CHOOSE i \in DOMAIN fd :
               /\ fd[i].max_amount = largest_amount
               /\ \A j \in DOMAIN fd : j < i => fd[j].max_amount # largest_amount]

RECURSIVE FirstWithMax(_, _)
\* the loop with break: the first item whose max_amount is largest_amount
FirstWithMax(fd, largest_amount) ==
    IF Head(fd).max_amount = largest_amount THEN Head(fd)
    ELSE FirstWithMax(Tail(fd), largest_amount)

\* variant of OtherItems: the items are compared by their max_amount alone
OtherItemsByAmount(fd, largest_item) ==
    SelectSeq(fd, LAMBDA item : item.max_amount # largest_item.max_amount)

\* the items kept by  item != largest_item  (dict comparison, by value)
OtherItems(fd, largest_item) == SelectSeq(fd, LAMBDA item : item # largest_item)

\* variant of ClassifyLargest: calculation_matches asks for a difference below
\* the tolerance
ClassifyLargestStrictly(fd) ==
    LET largest_amount == Max({fd[i].max_amount : i \in DOMAIN fd})
        largest_item == FirstWithMax(fd, largest_amount)
        others == OtherItems(fd, largest_item)
        calculated_sum == Sum([i \in DOMAIN others |-> Sum(others[i].amounts)])
        difference == Abs(calculated_sum - largest_amount)
    IN  [data_rows |-> others,
         total_rows |-> <<[line_number |-> largest_item.line_number,
                           text |-> largest_item.text,
                           amounts |-> largest_item.amounts,
                           max_amount |-> largest_item.max_amount,
                           is_total |-> TRUE,
                           detected_as_total |-> TRUE,
                           calculation_matches |-> difference < Tolerance * 100]>>]

\* the branch taken when financial_data is not empty
ClassifyLargest(fd) ==
    LET largest_amount == Max({fd[i].max_amount : i \in DOMAIN fd})
        largest_item == FirstWithMax(fd, largest_amount)
        others == OtherItems(fd, largest_item)
        \* other_amounts.extend(other_item['amounts']); sum(other_amounts)
        calculated_sum == Sum([i \in DOMAIN others |-> Sum(others[i].amounts)])
        difference == Abs(calculated_sum - largest_amount)
    IN  [data_rows |-> others,
         total_rows |-> <<[line_number |-> largest_item.line_number,
                           text |-> largest_item.text,
                           amounts |-> largest_item.amounts,
                           max_amount |-> largest_item.max_amount,
                           is_total |-> TRUE,
                           detected_as_total |-> TRUE,
                           calculation_matches |-> difference <= Tolerance * 100]>>]

\* variant of identify_data_rows_and_total: an empty input is reported as an error
identify_rejecting_empty(fd) ==
    IF fd = <<>> THEN [error |-> "EmptyInput", data_rows |-> <<>>, total_rows |-> <<>>]
    ELSE ClassifyLargest(fd)

identify_data_rows_and_total(fd) ==
    IF fd = <<>> THEN [data_rows |-> <<>>, total_rows |-> <<>>]
    ELSE ClassifyLargest(fd)

----------------------------------------------------------------------------
(* validate_financial_calculations                                          *)

\* status strings, word by word; "[x]" and "[ok]" stand for the two emoji
StatusError == <<"[x]", "ERROR">>
StatusMatch == <<"[ok]", "CALCULO", "CORRECTO">>
StatusMinor == <<"[ok]", "CALCULO", "CORRECTO", "(diferencia", "minima)">>
StatusMismatch == <<"[x]", "ERROR", "EN", "CALCULO", "DETECTADO">>
StatusUnknown == <<"[!]", "DESCONOCIDO">>

\* variant of DataAmounts: every amount of every row is taken
RECURSIVE AllDataAmounts(_)
AllDataAmounts(rows) ==
    IF rows = <<>> THEN <<>> ELSE Head(rows).amounts \o AllDataAmounts(Tail(rows))

\* one entry per row that has amounts: the largest amount of the row
RECURSIVE DataAmounts(_)
DataAmounts(rows) ==
    IF rows = <<>> THEN <<>>
    ELSE IF Head(rows).amounts # <<>>
         THEN <<Max(Range(Head(rows).amounts))>> \o DataAmounts(Tail(rows))
    ELSE DataAmounts(Tail(rows))

\* total_amounts.extend(row['amounts']) over the total rows; max of them, else 0
ReportedTotal(total_rows) ==
    LET total_amounts == UNION {Range(total_rows[i].amounts) : i \in DOMAIN total_rows}
    IN  IF total_rows # <<>> /\ total_amounts # {} THEN Max(total_amounts) ELSE 0

\* variant of StatusFor: the tolerance test is strict
StatusForStrict(difference) ==
    IF difference = 0 THEN StatusMatch
    ELSE IF difference < Tolerance * 100 THEN StatusMinor
    ELSE StatusMismatch

StatusFor(difference) ==
    IF difference = 0 THEN StatusMatch
    ELSE IF difference <= Tolerance * 100 THEN StatusMinor
    ELSE StatusMismatch

MessageFor(difference) ==
    IF difference = 0 THEN <<"La suma coincide exactamente con el total reportado">>
    ELSE IF difference <= Tolerance * 100
    THEN <<"Diferencia menor a $10", difference, "probablemente redondeo">>
    ELSE <<"La suma no coincide con el total. Diferencia:", difference>>

\* the result returned early when there is nothing to sum
NothingToSum ==
    [valid |-> FALSE,
     data_amounts |-> <<>>,
     calculated_sum |-> 0,
     reported_total |-> 0,
     difference |-> 0,
     details |-> <<>>,
     summary |-> [status |-> StatusError,
                  message |-> <<"No se encontraron cantidades de datos para sumar">>]]

\* the result built from the sum of data_amounts and the reported total
Reconciled(data_rows, total_rows) ==
    LET data_amounts == DataAmounts(data_rows)
        calculated_sum == Sum(data_amounts)
        reported_total == ReportedTotal(total_rows)
        difference == Abs(calculated_sum - reported_total)
    IN  [valid |-> difference <= Tolerance * 100,
         data_amounts |-> data_amounts,
         calculated_sum |-> calculated_sum,
         reported_total |-> reported_total,
         difference |-> difference,
         details |-> [data_rows_count |-> Len(data_rows),
                      total_rows_count |-> Len(total_rows),
                      individual_amounts |-> data_amounts],
         summary |-> [status |-> StatusFor(difference),
                      message |-> MessageFor(difference)]]

\* variant of validate_financial_calculations: no early return on empty data_amounts
validate_without_guard(data_rows, total_rows) == Reconciled(data_rows, total_rows)

validate_financial_calculations(data_rows, total_rows) ==
    IF DataAmounts(data_rows) = <<>> THEN NothingToSum
    ELSE Reconciled(data_rows, total_rows)

----------------------------------------------------------------------------
(* process_financial_report, step by step                                  *)

ErrNoText == "No se pudo extraer texto de la imagen"
ErrNoAmounts == "No se encontraron cantidades monetarias"

None == [none |-> TRUE]

\* extract_text_from_image returned raw_text; the test  if not raw_text
CheckText ==
    /\ pc = "start"
    /\ calls' = Append(calls, [fn |-> "extract_text_from_image", n |-> 0])
    /\ IF raw_text = <<>>
       THEN outcome' = [error |-> ErrNoText] /\ pc' = "done"
       ELSE outcome' = outcome /\ pc' = "extract"
    /\ UNCHANGED <<raw_text, financial_data, structure, validation>>
    /\ UNCHANGED batchVars

\* variant of ExtractAmounts: the test  if not financial_data  is missing
ExtractAmountsUnchecked ==
    /\ pc = "extract"
    /\ calls' = Append(calls, [fn |-> "extract_financial_amounts", n |-> 0])
    /\ financial_data' = extract_financial_amounts(raw_text)
    /\ pc' = "classify"
    /\ UNCHANGED <<raw_text, structure, validation, outcome>>
    /\ UNCHANGED batchVars

\* the call of extract_financial_amounts and the test  if not financial_data
ExtractAmounts ==
    /\ pc = "extract"
    /\ calls' = Append(calls, [fn |-> "extract_financial_amounts", n |-> 0])
    /\ financial_data' = extract_financial_amounts(raw_text)
    /\ IF financial_data' = <<>>
       THEN outcome' = [error |-> ErrNoAmounts] /\ pc' = "done"
       ELSE outcome' = outcome /\ pc' = "classify"
    /\ UNCHANGED <<raw_text, structure, validation>>
    /\ UNCHANGED batchVars

\* the call of identify_data_rows_and_total
Classify ==
    /\ pc = "classify"
    /\ calls' = Append(calls, [fn |-> "identify_data_rows_and_total",
                               n |-> Len(financial_data)])
    /\ structure' = identify_data_rows_and_total(financial_data)
    /\ pc' = "validate"
    /\ UNCHANGED <<raw_text, financial_data, validation, outcome>>
    /\ UNCHANGED batchVars

\* the call of validate_financial_calculations
Validate ==
    /\ pc = "validate"
    /\ calls' = Append(calls, [fn |-> "validate_financial_calculations",
                               n |-> Len(structure.data_rows) + Len(structure.total_rows)])
    /\ validation' = validate_financial_calculations(structure.data_rows,
                                                     structure.total_rows)
    /\ pc' = "compile"
    /\ UNCHANGED <<raw_text, financial_data, structure, outcome>>
    /\ UNCHANGED batchVars

\* the results dict; save_results only writes a file and swallows its errors
Compile ==
    /\ pc = "compile"
    /\ outcome' = [raw_text |-> raw_text,
                   financial_data |-> financial_data,
                   structure |-> structure,
                   validation |-> validation]
    /\ pc' = "done"
    /\ UNCHANGED <<raw_text, financial_data, structure, validation, calls>>
    /\ UNCHANGED batchVars

\* process_financial_report as one function of the text the OCR returned
process_financial_report(text) ==
    IF text = <<>> THEN [error |-> ErrNoText]
    ELSE LET fd == extract_financial_amounts(text)
             st == identify_data_rows_and_total(fd)
         IN  IF fd = <<>> THEN [error |-> ErrNoAmounts]
             ELSE [raw_text |-> text,
                   financial_data |-> fd,
                   structure |-> st,
                   validation |-> validate_financial_calculations(st.data_rows,
                                                                  st.total_rows)]

----------------------------------------------------------------------------
(* Texts                                                                   *)

LItemA == <<"I", "t", "e", "m", " ", "A", " ", "1", "0", "0">>
LItemB == <<"I", "t", "e", "m", " ", "B", " ", "2", "0", "0">>
LTotal300 == <<"T", "o", "t", "a", "l", " ", "3", "0", "0">>
LItemAD == <<"I", "t", "e", "m", " ", "A", " ", "$", "1", "0", "0">>
LItemBD == <<"I", "t", "e", "m", " ", "B", " ", "$", "2", "0", "0">>
LTotal300D == <<"T", "o", "t", "a", "l", " ", "$", "3", "0", "0">>
L1000 == <<"$", "1", ",", "0", "0", "0">>
L1200 == <<"$", "1", ",", "2", "0", "0">>
L3400 == <<"$", "3", ",", "4", "0", "0">>
LTotal4600 == <<"T", "o", "t", "a", "l", " ", "$", "4", ",", "6", "0", "0">>
LTotal4610 == <<"T", "o", "t", "a", "l", " ", "$", "4", ",", "6", "1", "0">>
LTotal4650 == <<"T", "o", "t", "a", "l", " ", "$", "4", ",", "6", "5", "0">>
L42 == <<"4", "2">>
L4200 == <<"4", ",", "2", "0", "0">>
L500And4200 == <<"$", "5", "0", "0", " ", "4", ",", "2", "0", "0">>
LZeroAnd4200 == <<"$", "0", " ", "4", ",", "2", "0", "0">>
LTwice500 == <<"$", "5", "0", "0", " ", "$", "5", "0", "0">>
LSuma == <<"S", "U", "M", "A">>
LTotalTwo == <<"T", "o", "t", "a", "l", " ", "$", "1", ",", "2", "0", "0", " ",
               "$", "3", ",", "4", "0", "0">>
LBlank == <<" ">>
LEmpty == <<>>

TextItems == JoinLines(<<LItemA, LItemB, LTotal300>>)
TextItemsDollar == JoinLines(<<LItemAD, LItemBD, LTotal300D>>)
TextSingle == L1000
TextMatch == JoinLines(<<L1200, L3400, LTotal4600>>)
TextMinor == JoinLines(<<L1200, L3400, LTotal4610>>)
TextMismatch == JoinLines(<<L1200, L3400, LTotal4650>>)
TextBlank == JoinLines(<<LBlank, LBlank>>)
TextFallback == JoinLines(<<L500And4200, L42, L4200, LZeroAnd4200>>)
TextHinted == JoinLines(<<LSuma, L1000, L1200, LTotalTwo>>)

\* the lines the texts of SpecReport are put together from
CoreLines == {LEmpty, LBlank, LItemA, L1000, L1200, L3400, LTotal4610, LTotal4650,
              L4200, L500And4200, LTwice500, LSuma}
MaxLines == 3

Texts ==
    {JoinLines(ls) : ls \in UNION {[1..n -> CoreLines] : n \in 0..MaxLines}}
    \cup {TextItems, TextItemsDollar, TextSingle, TextMatch, TextMinor, TextMismatch,
          TextBlank, TextFallback, TextHinted}

----------------------------------------------------------------------------
(* SpecReport: one call of process_financial_report on any text of Texts   *)

IdleBatch ==
    /\ images = <<>>
    /\ image_files = <<>>
    /\ idx = 0
    /\ results = <<>>
    /\ report = None
    /\ runs = 0
    /\ results_at_start = 0
    /\ bpc = "idle"

InitReport ==
    /\ raw_text \in Texts
    /\ financial_data = <<>>
    /\ structure = None
    /\ validation = None
    /\ outcome = None
    /\ calls = <<>>
    /\ pc = "start"
    /\ IdleBatch

NextReport == CheckText \/ ExtractAmounts \/ Classify \/ Validate \/ Compile

SpecReport == InitReport /\ [][NextReport]_vars

----------------------------------------------------------------------------
(* SpecRows: identify_data_rows_and_total and validate_financial_calculations *)
(* called on any sequence of AmountLines, the empty one included.  The lines  *)
(* are as extract_financial_amounts builds them: amounts not empty,           *)
(* max_amount their maximum, line numbers increasing.  The text of a line is  *)
(* only ever printed by the two functions, so one text stands for all.        *)

MaxRows == 3
MaxAmounts == 2
\* amounts in hundredths: 10.00, 20.00 and 30.01
AmountValues == {1000, 2000, 3001}
AmountSets == {a \in SUBSET AmountValues : a # {} /\ Cardinality(a) <= MaxAmounts}
RowText == <<"r", "o", "w">>

\* some list whose values are those of S
RECURSIVE SetToSeq(_)
SetToSeq(S) == IF S = {} THEN <<>> ELSE LET x == CHOOSE y \in S : TRUE IN <<x>> \o SetToSeq(S \ {x})

RowsOf(f) ==
    [i \in DOMAIN f |-> [line_number |-> i - 1,
                         text |-> RowText,
                         amounts |-> Unique(SetToSeq(f[i][1])),
                         is_total |-> f[i][2],
                         max_amount |-> Max(f[i][1])]]

InitRows ==
    /\ raw_text = <<>>
    /\ \E n \in 0..MaxRows : \E f \in [1..n -> AmountSets \X BOOLEAN] :
          financial_data = RowsOf(f)
    /\ structure = None
    /\ validation = None
    /\ outcome = None
    /\ calls = <<>>
    /\ pc = "classify"
    /\ IdleBatch

NextRows == Classify \/ Validate

SpecRows == InitRows /\ [][NextRows]_vars

----------------------------------------------------------------------------
(* BatchValidator                                                          *)

MaxImages == 2
MaxRuns == 2

\* what the image directory can hold: for each file the text the OCR returns for
\* it, or an exception escaping process_financial_report
BatchTexts == {<<>>, TextBlank, TextItems, TextSingle, TextMatch, TextMinor, TextMismatch}
ImageOutcomes ==
    {[raises |-> FALSE, text |-> t] : t \in BatchTexts} \cup {[raises |-> TRUE, text |-> <<>>]}

\* sorted(image_files): files are numbered in the order of their names
find_all_images ==
    LET S == DOMAIN images
    IN  [i \in 1..Cardinality(S) |-> CHOOSE f \in S : Cardinality({g \in S : g < f}) = i - 1]

\* dict.get(key, default)
Get(d, key, default) == IF key \in DOMAIN d THEN d[key] ELSE default

extract_summary(result, filename) ==
    IF "error" \in DOMAIN result
    THEN [filename |-> filename,
          status |-> StatusError,
          message |-> <<result.error>>,
          calculated_sum |-> 0,
          reported_total |-> 0,
          difference |-> 0,
          valid |-> FALSE]
    ELSE LET v == Get(result, "validation", <<>>)
             summary_info == Get(v, "summary", <<>>)
         IN  [filename |-> filename,
              status |-> Get(summary_info, "status", StatusUnknown),
              message |-> Get(summary_info, "message", <<"No disponible">>),
              calculated_sum |-> Get(v, "calculated_sum", 0),
              reported_total |-> Get(v, "reported_total", 0),
              difference |-> Get(v, "difference", 0),
              valid |-> Get(v, "valid", FALSE),
              data_amounts |-> Get(v, "data_amounts", <<>>)]

\* the summary built in the except branch of the loop
error_summary(filename) ==
    [filename |-> filename,
     status |-> StatusError,
     message |-> <<"Error procesando imagen">>,
     calculated_sum |-> 0,
     reported_total |-> 0,
     difference |-> 0,
     valid |-> FALSE]

\* the test  '[x] ERROR' in r['status']
HasErrorMarker(r) == Contains(r.status, StatusError)

\* variant of CountedIn: invalid_reports counts every summary that is not valid
CountedInWithoutMarkerTest(r) ==
    (IF r.valid THEN {"valid_reports"} ELSE {})
    \cup (IF ~r.valid THEN {"invalid_reports"} ELSE {})
    \cup (IF HasErrorMarker(r) THEN {"error_reports"} ELSE {})

\* the three counters of generate_consolidated_report a summary is counted in
CountedIn(r) ==
    (IF r.valid THEN {"valid_reports"} ELSE {})
    \cup (IF ~r.valid /\ ~HasErrorMarker(r) THEN {"invalid_reports"} ELSE {})
    \cup (IF HasErrorMarker(r) THEN {"error_reports"} ELSE {})

CountOf(rs, counter) == Cardinality({i \in DOMAIN rs : counter \in CountedIn(rs[i])})

\* financial_errors: not valid and without the error marker
FinancialErrors(rs) == SelectSeq(rs, LAMBDA r : ~r.valid /\ ~HasErrorMarker(r))

\* the statistics generate_consolidated_report prints; the total of the
\* discrepancies is computed only when financial_errors is not empty
consolidated_report(rs) ==
    LET fe == FinancialErrors(rs)
        stats == [total_images |-> Len(rs),
                  valid_reports |-> CountOf(rs, "valid_reports"),
                  invalid_reports |-> CountOf(rs, "invalid_reports"),
                  error_reports |-> CountOf(rs, "error_reports"),
                  financial_errors |-> fe]
    IN  IF fe # <<>>
        THEN stats @@ [total_error_amount |-> Sum([i \in DOMAIN fe |-> fe[i].difference])]
        ELSE stats

\* process_all_images up to the loop: no image, no loop and no report
StartBatch ==
    /\ bpc = "idle"
    /\ runs < MaxRuns
    /\ runs' = runs + 1
    /\ image_files' = find_all_images
    /\ idx' = 0
    /\ results_at_start' = Len(results)
    /\ bpc' = IF image_files' = <<>> THEN "idle" ELSE "loop"
    /\ UNCHANGED <<images, results, report>>
    /\ UNCHANGED reportVars

\* one iteration of the loop, the try branch
ProcessImage ==
    /\ bpc = "loop"
    /\ idx < Len(image_files)
    /\ LET image_path == image_files[idx + 1]
       IN  /\ ~images[image_path].raises
           /\ results' = Append(results,
                  extract_summary(process_financial_report(images[image_path].text),
                                  image_path))
    /\ idx' = idx + 1
    /\ UNCHANGED <<images, image_files, report, runs, results_at_start, bpc>>
    /\ UNCHANGED reportVars

\* variant of ProcessImageError: the exception is not caught and ends the call
ProcessImageErrorEscapes ==
    /\ bpc = "loop"
    /\ idx < Len(image_files)
    /\ images[image_files[idx + 1]].raises
    /\ bpc' = "idle"
    /\ UNCHANGED <<images, image_files, idx, results, report, runs, results_at_start>>
    /\ UNCHANGED reportVars

\* one iteration of the loop, the except branch
ProcessImageError ==
    /\ bpc = "loop"
    /\ idx < Len(image_files)
    /\ LET image_path == image_files[idx + 1]
       IN  /\ images[image_path].raises
           /\ results' = Append(results, error_summary(image_path))
    /\ idx' = idx + 1
    /\ UNCHANGED <<images, image_files, report, runs, results_at_start, bpc>>
    /\ UNCHANGED reportVars

\* after the loop: generate_consolidated_report
GenerateReport ==
    /\ bpc = "loop"
    /\ idx = Len(image_files)
    /\ report' = consolidated_report(results)
    /\ bpc' = "idle"
    /\ UNCHANGED <<images, image_files, idx, results, runs, results_at_start>>
    /\ UNCHANGED reportVars

IdleReport ==
    /\ raw_text = <<>>
    /\ financial_data = <<>>
    /\ structure = None
    /\ validation = None
    /\ outcome = None
    /\ calls = <<>>
    /\ pc = "idle"

Init ==
    /\ \E n \in 0..MaxImages : images \in [1..n -> ImageOutcomes]
    /\ image_files = <<>>
    /\ idx = 0
    /\ results = <<>>
    /\ report = None
    /\ runs = 0
    /\ results_at_start = 0
    /\ bpc = "idle"
    /\ IdleReport

Next == StartBatch \/ ProcessImage \/ ProcessImageError \/ GenerateReport

Spec == Init /\ [][Next]_vars

----------------------------------------------------------------------------
(* Properties of SpecRows                                                  *)

Called(fn) == \E i \in DOMAIN calls : calls[i].fn = fn

\* the lines $1,200 and $3,400 and a total line of 4,610
ExampleRows == RowsOf(<< <<{120000}, FALSE>>, <<{340000}, FALSE>>, <<{461000}, TRUE>> >>)

\* C1: whenever validate_financial_calculations has run on at least one data row,
\* difference is |calculated_sum - reported_total| and the status follows the
\* thresholds in order: 0 gives the exact-match status, more than 0 and at most
\* 10 the minimal-difference status, more than 10 the error-in-calculation
\* status; valid is true exactly for the first two.  Data 1200 and 3400 against
\* a total of 4610 give difference 10 and the minimal-difference status, valid.
VerdictFollowsThresholds ==
    /\ (pc = "compile" /\ structure.data_rows # <<>>) =>
          LET d == Abs(validation.calculated_sum - validation.reported_total)
              st == validation.summary.status
          IN  /\ validation.difference = d
              /\ d = 0 => st = StatusMatch /\ validation.valid
              /\ (0 < d /\ d <= 1000) => st = StatusMinor /\ validation.valid
              /\ d > 1000 => st = StatusMismatch /\ ~validation.valid
              /\ validation.valid <=> st \in {StatusMatch, StatusMinor}
    /\ LET c == identify_data_rows_and_total(ExampleRows)
           v == validate_financial_calculations(c.data_rows, c.total_rows)
       IN  /\ v.calculated_sum = 460000 /\ v.reported_total = 461000
           /\ v.difference = 1000
           /\ v.summary.status = StatusMinor /\ v.valid

\* a call where the difference is exactly 10
BoundaryDifferenceReached ==
    /\ pc = "compile"
    /\ structure.data_rows # <<>>
    /\ validation.difference = 1000
    /\ validation.summary.status = StatusMinor

LineNumbers(rows) == {rows[i].line_number : i \in DOMAIN rows}

\* C2: for a non-empty input, identify_data_rows_and_total returns exactly one
\* total row, which is one of the input lines and is not among data_rows, and
\* data_rows is the input with that one line taken out, order kept.
ClassificationPartitions ==
    (pc \in {"validate", "compile"} /\ financial_data # <<>>) =>
        /\ Len(structure.total_rows) = 1
        /\ structure.total_rows[1].line_number \notin LineNumbers(structure.data_rows)
        /\ \E k \in DOMAIN financial_data :
              /\ financial_data[k].line_number = structure.total_rows[1].line_number
              /\ financial_data[k].amounts = structure.total_rows[1].amounts
              /\ structure.data_rows =
                    SubSeq(financial_data, 1, k - 1)
                    \o SubSeq(financial_data, k + 1, Len(financial_data))

\* three lines, two of them tied on the largest amount, two of them hinted
TiedAndHintedClassified ==
    /\ pc = "validate"
    /\ Len(financial_data) = 3
    /\ Cardinality({i \in DOMAIN financial_data : financial_data[i].is_total}) >= 2
    /\ \E i, j \in DOMAIN financial_data :
          /\ i < j
          /\ financial_data[i].max_amount = financial_data[j].max_amount
          /\ financial_data[i].max_amount = structure.total_rows[1].max_amount
    /\ Len(structure.data_rows) = 2

----------------------------------------------------------------------------
(* Properties of SpecReport                                                *)

\* C3: when extraction yields exactly one AmountLine, that line is the total row
\* and there is no data row; validation then returns the nothing-to-sum result:
\* valid false, calculated_sum 0, a status that is neither of the two correct
\* ones, and the caller gets a result with this validation, not an error.  The
\* single line $1,000 is such a text, with the one amount 1000.
SingleLineIndeterminate ==
    /\ (pc \in {"validate", "compile", "done"} /\ Len(financial_data) = 1) =>
          /\ structure.data_rows = <<>>
          /\ Len(structure.total_rows) = 1
          /\ structure.total_rows[1].line_number = financial_data[1].line_number
    /\ (pc \in {"compile", "done"} /\ Len(financial_data) = 1) =>
          /\ ~validation.valid
          /\ validation.calculated_sum = 0
          /\ validation.summary.status = StatusError
          /\ validation.summary.message =
                <<"No se encontraron cantidades de datos para sumar">>
    /\ (pc = "done" /\ Len(financial_data) = 1) =>
          /\ "error" \notin DOMAIN outcome
          /\ outcome.validation = validation
    /\ (pc = "done" /\ raw_text = TextSingle) =>
          /\ Len(financial_data) = 1
          /\ financial_data[1].amounts = <<100000>>

\* the text $1,000 went through the whole call
SingleLineProcessed ==
    /\ pc = "done"
    /\ raw_text = TextSingle
    /\ Len(financial_data) = 1
    /\ structure.data_rows = <<>>
    /\ ~validation.valid

\* str.strip() of the whole text is empty
IsBlankText(text) == \A i \in DOMAIN text : IsSpace(text[i]) \/ text[i] = "\n"

\* C4 as claimed: a text that is empty or only whitespace ends the call with the
\* no-text error, and extract_financial_amounts is never called for it.
BlankTextIsNoText ==
    (pc = "done" /\ IsBlankText(raw_text)) =>
        /\ outcome = [error |-> ErrNoText]
        /\ ~Called("extract_financial_amounts")

\* C5: when extract_financial_amounts returns no AmountLine the call ends with
\* the no-amounts error and classification is never called; every call of
\* identify_data_rows_and_total and of validate_financial_calculations is given
\* at least one AmountLine.
NoAmountsStopsBeforeClassify ==
    /\ \A i \in DOMAIN calls :
          calls[i].fn \in {"identify_data_rows_and_total",
                           "validate_financial_calculations"} => calls[i].n > 0
    /\ (Called("extract_financial_amounts") /\ financial_data = <<>>) =>
          /\ pc = "done"
          /\ outcome = [error |-> ErrNoAmounts]
          /\ ~Called("identify_data_rows_and_total")
          /\ ~Called("validate_financial_calculations")

\* a text with visible characters and no amount ended the call
NoAmountsReported ==
    /\ pc = "done"
    /\ ~IsBlankText(raw_text)
    /\ Called("extract_financial_amounts")
    /\ financial_data = <<>>
    /\ outcome = [error |-> ErrNoAmounts]

Texts_(rows) == [i \in DOMAIN rows |-> rows[i].text]

\* C7 as claimed: the text Item A 100 / Item B 200 / Total 300 goes through
\* extraction, classification and validation and gives calculated_sum 300,
\* reported_total 300, difference 0 and the exact-match status.
BareItemsMatch ==
    (pc = "done" /\ raw_text = TextItems) =>
        /\ "validation" \in DOMAIN outcome
        /\ outcome.validation.calculated_sum = 30000
        /\ outcome.validation.reported_total = 30000
        /\ outcome.validation.difference = 0
        /\ outcome.validation.summary.status = StatusMatch

\* C7: for the text Item A 100 / Item B 200 / Total 300 no bare number is
\* accepted (each is below 1000), so the call ends with the no-amounts error and
\* nothing is classified; for the same lines with currency marks, Item A $100 /
\* Item B $200 / Total $300, the result is calculated_sum 300, reported_total
\* 300, difference 0 and the exact-match status, Total $300 being the total row
\* and the two item lines the data rows.
BareItemsRejectedMarkedItemsMatch ==
    /\ (pc = "done" /\ raw_text = TextItems) =>
          /\ outcome = [error |-> ErrNoAmounts]
          /\ ~Called("identify_data_rows_and_total")
    /\ (pc = "done" /\ raw_text = TextItemsDollar) =>
          /\ "validation" \in DOMAIN outcome
          /\ outcome.validation.calculated_sum = 30000
          /\ outcome.validation.reported_total = 30000
          /\ outcome.validation.difference = 0
          /\ outcome.validation.summary.status = StatusMatch
          /\ outcome.validation.valid
          /\ Texts_(outcome.structure.total_rows) = <<LTotal300D>>
          /\ Texts_(outcome.structure.data_rows) = <<LItemAD, LItemBD>>

\* the text with the bare numbers ended the call
BareItemsProcessed ==
    /\ pc = "done"
    /\ raw_text = TextItems
    /\ Called("extract_financial_amounts")
    /\ "error" \in DOMAIN outcome

----------------------------------------------------------------------------
(* Properties of Spec                                                      *)

SummaryFields == {"filename", "status", "calculated_sum", "reported_total",
                  "difference", "valid"}

\* the summary at position k of the current call is the one of image k
SummaryOfImage(r, f) ==
    /\ SummaryFields \subseteq DOMAIN r
    /\ r.filename = f
    /\ IF images[f].raises
       THEN r.status = StatusError /\ ~r.valid /\ r.difference = 0
       ELSE LET out == process_financial_report(images[f].text)
            IN  IF "error" \in DOMAIN out
                THEN /\ r.status = StatusError /\ r.message = <<out.error>>
                     /\ ~r.valid /\ r.difference = 0
                ELSE /\ r.status = out.validation.summary.status
                     /\ r.calculated_sum = out.validation.calculated_sum
                     /\ r.reported_total = out.validation.reported_total
                     /\ r.difference = out.validation.difference
                     /\ r.valid = out.validation.valid

\* C8: in process_all_images over a non-empty list of n images, nothing that
\* happens to one image (an error result, an exception) ends the loop: after idx
\* iterations self.results has gained idx summaries, when the call has ended it
\* has gained n, and the k-th summary gained is the one of the k-th image of the
\* sorted list, with its own status, sums, difference and valid flag.
LoopSummarisesEveryImage ==
    /\ bpc = "loop" => Len(results) = results_at_start + idx
    /\ (bpc = "idle" /\ runs > 0 /\ image_files # <<>>) =>
          Len(results) = results_at_start + Len(image_files)
    /\ runs > 0 =>
          \A k \in 1..(Len(results) - results_at_start) :
              /\ k <= Len(image_files)
              /\ SummaryOfImage(results[results_at_start + k], image_files[k])

\* a call has ended whose first image raised and whose second image was validated
LaterImageProcessedAfterFailure ==
    /\ bpc = "idle"
    /\ report # None
    /\ Len(image_files) = 2
    /\ images[image_files[1]].raises
    /\ images[image_files[2]].text = TextMatch
    /\ Len(results) = results_at_start + 2
    /\ results[results_at_start + 1].status = StatusError
    /\ results[results_at_start + 2].valid

\* the verdicts as the summaries show them
IsMismatch(r) == r.difference > Tolerance * 100
IsIndeterminate(r) == r.message = <<"No se encontraron cantidades de datos para sumar">>

\* C9 as claimed: in the consolidated report a nothing-to-sum summary and a
\* summary with a difference above 10 are never counted by the same counter, and
\* every summary with a difference above 10 is counted in invalid_reports
\* (calculation errors) and not in error_reports (processing errors).
MismatchCountedAsCalculationError ==
    (bpc = "idle" /\ report # None) =>
        /\ \A i, j \in DOMAIN results :
              (IsIndeterminate(results[i]) /\ IsMismatch(results[j])) =>
                  CountedIn(results[i]) \cap CountedIn(results[j]) = {}
        /\ \A j \in DOMAIN results :
              IsMismatch(results[j]) => CountedIn(results[j]) = {"invalid_reports"}
        /\ report.invalid_reports >= Cardinality({j \in DOMAIN results : IsMismatch(results[j])})

\* C10 as claimed: the total discrepancy of the consolidated report is the sum of
\* difference over the summaries with a difference above 10; when there is such
\* a summary, financial_errors is not empty and the total is above 10.
DiscrepancyTotalsMismatches ==
    (bpc = "idle" /\ report # None) =>
        LET mm == SelectSeq(results, IsMismatch)
        IN  IF mm # <<>>
            THEN /\ report.financial_errors # <<>>
                 /\ "total_error_amount" \in DOMAIN report
                 /\ report.total_error_amount = Sum([i \in DOMAIN mm |-> mm[i].difference])
                 /\ report.total_error_amount > Tolerance * 100
            ELSE "total_error_amount" \in DOMAIN report => report.total_error_amount = 0

\* the summaries gained by the call of process_all_images in progress or last ended
SummariesOfCall == SubSeq(results, results_at_start + 1, Len(results))

\* C11 as claimed: no state passes from one image or one call to the next: each
\* summary of a call is the one its own image gives, whatever came before it,
\* and the consolidated report of an ended call covers exactly the images that
\* call found, its total_images being their number, also for a second call on
\* the same BatchValidator.
ReportCoversTheImagesOfTheCall ==
    /\ runs > 0 =>
          \A k \in DOMAIN SummariesOfCall :
              k <= Len(image_files) /\ SummaryOfImage(SummariesOfCall[k], image_files[k])
    /\ (bpc = "idle" /\ report # None) =>
          /\ report.total_images = Len(image_files)
          /\ report = consolidated_report(SummariesOfCall)

\* the largest max_amount of a non-empty sequence of AmountLines
LargestAmount(fd) == Max({fd[i].max_amount : i \in DOMAIN fd})

\* C12: the total row is the AmountLine with the largest max_amount of all
\* lines; when several lines share it, the first of them in line order is the
\* total row and every other line, the other tied lines included, is a data row.
FirstLargestIsTotal ==
    (pc \in {"validate", "compile"} /\ financial_data # <<>>) =>
        LET fd == financial_data
            t == structure.total_rows[1]
        IN  /\ t.max_amount = LargestAmount(fd)
            /\ \E k \in DOMAIN fd :
                  /\ fd[k].max_amount = LargestAmount(fd)
                  /\ \A j \in 1..(k - 1) : fd[j].max_amount < LargestAmount(fd)
                  /\ t.line_number = fd[k].line_number
                  /\ t.amounts = fd[k].amounts
                  /\ \A j \in DOMAIN fd :
                        j # k => \E i \in DOMAIN structure.data_rows :
                                     structure.data_rows[i] = fd[j]

\* the first and the last of three lines share the largest amount: the first is
\* the total row and the last is a data row
TiedLinesClassified ==
    /\ pc = "validate"
    /\ Len(financial_data) = 3
    /\ financial_data[1].max_amount = financial_data[3].max_amount
    /\ financial_data[2].max_amount < financial_data[1].max_amount
    /\ structure.total_rows[1].line_number = financial_data[1].line_number
    /\ structure.data_rows = <<financial_data[2], financial_data[3]>>

\* the same AmountLines with the is_total hints replaced by those of h
WithHints(fd, h) == [i \in DOMAIN fd |-> [fd[i] EXCEPT !.is_total = h[i]]]

\* a row without its hint and without the fields classification adds
LineOf(row) == [line_number |-> row.line_number, text |-> row.text,
                amounts |-> row.amounts, max_amount |-> row.max_amount]
LinesOf(rows) == [i \in DOMAIN rows |-> LineOf(rows[i])]

\* C13: the keyword hints influence neither classification nor the verdict:
\* for the AmountLines just classified and validated and for every other choice
\* of their is_total hints, identify_data_rows_and_total selects the same line
\* as total row and the same data rows, and validate_financial_calculations
\* returns the same calculated_sum, reported_total, difference, valid and status.
HintsDoNotInfluence ==
    pc = "compile" =>
        \A h \in [DOMAIN financial_data -> BOOLEAN] :
            LET c == identify_data_rows_and_total(WithHints(financial_data, h))
                v == validate_financial_calculations(c.data_rows, c.total_rows)
            IN  /\ LinesOf(c.total_rows) = LinesOf(structure.total_rows)
                /\ LinesOf(c.data_rows) = LinesOf(structure.data_rows)
                /\ v.calculated_sum = validation.calculated_sum
                /\ v.reported_total = validation.reported_total
                /\ v.difference = validation.difference
                /\ v.valid = validation.valid
                /\ v.summary.status = validation.summary.status

\* the only hinted line is a smaller one: it is a data row, and the line taken
\* as total row carried no hint
HintedLineIsDataRow ==
    /\ pc = "compile"
    /\ Len(financial_data) = 3
    /\ financial_data[1].is_total
    /\ ~financial_data[2].is_total /\ ~financial_data[3].is_total
    /\ financial_data[1].max_amount < financial_data[3].max_amount
    /\ structure.total_rows[1].line_number = financial_data[3].line_number
    /\ structure.data_rows[1] = financial_data[1]
    /\ validation.reported_total = financial_data[3].max_amount

\* C14: data_amounts of validate_financial_calculations has exactly one entry
\* per data row, in the order of the data rows, each entry being the largest
\* amount of its row, and calculated_sum is the sum of these entries.
OneAmountPerDataRow ==
    pc = "compile" =>
        LET rows == structure.data_rows
            data_amounts == validation.data_amounts
        IN  /\ Len(data_amounts) = Len(rows)
            /\ \A i \in DOMAIN rows :
                  /\ data_amounts[i] \in Range(rows[i].amounts)
                  /\ \A a \in Range(rows[i].amounts) : a <= data_amounts[i]
            /\ validation.calculated_sum = Sum(data_amounts)
            /\ rows # <<>> => validation.details.individual_amounts = data_amounts

\* two data rows were summed, the first of them carrying two amounts of which
\* only the larger one counts
RowWithTwoAmountsSummed ==
    /\ pc = "compile"
    /\ Len(structure.data_rows) = 2
    /\ Len(structure.data_rows[1].amounts) = 2
    /\ Len(structure.data_rows[2].amounts) = 1
    /\ validation.data_amounts = <<structure.data_rows[1].max_amount,
                                   structure.data_rows[2].max_amount>>
    /\ validation.calculated_sum < Sum(structure.data_rows[1].amounts)
                                     + Sum(structure.data_rows[2].amounts)

\* C15 as claimed: in every result of validate_financial_calculations,
\* reported_total is the largest amount of the selected total row whenever a
\* total row was selected, and is 0 only when there is no total row; this holds
\* too for the result returned when data_rows is empty.
ReportedTotalIsTotalRowMaximum ==
    pc = "compile" =>
        /\ structure.total_rows # <<>> =>
              /\ validation.reported_total \in Range(structure.total_rows[1].amounts)
              /\ \A a \in Range(structure.total_rows[1].amounts) :
                    a <= validation.reported_total
        /\ validation.reported_total = 0 => structure.total_rows = <<>>

\* extract_financial_amounts has just returned a non-empty list
Extracted == pc = "classify"

\* the AmountLine extracted from the raw line at 0-based index line_num, as a
\* sequence of no or one element
AmountLineAt(line_num) == SelectSeq(financial_data, LAMBDA row : row.line_number = line_num)

\* C16: the bare number tokens of a line count only when the line has no
\* strictly positive $ amount, and then only those of value >= 1000: a line with
\* a positive $ amount and a bare number keeps only the $ amount, a line with
\* only 42 yields no AmountLine, a line with only 4,200 yields the amount 4200.
BareNumbersOnlyAsFallback ==
    Extracted =>
        /\ \A i \in DOMAIN financial_data :
              LET row == financial_data[i]
                  marked == Range(DollarAmounts(row.text))
                  bare == Range(PlainAmountsAnyPositive(row.text))
              IN  /\ marked # {} => Range(row.amounts) = marked
                  /\ marked = {} =>
                        Range(row.amounts) = {a \in bare : a >= MinPlainAmount * 100}
        /\ \A k \in DOMAIN SplitLines(raw_text) :
              LET line == SplitLines(raw_text)[k]
              IN  /\ line = L500And4200 => AmountLineAt(k - 1)[1].amounts = <<50000>>
                  /\ line = L42 => AmountLineAt(k - 1) = <<>>
                  /\ line = L4200 => AmountLineAt(k - 1)[1].amounts = <<420000>>
                  /\ line = LZeroAnd4200 => AmountLineAt(k - 1)[1].amounts = <<420000>>

\* the lines  $500 4,200  /  42  /  4,200  /  $0 4,200  have been extracted:
\* the first keeps 500 alone, the second is dropped, the last two give 4200
FallbackLinesExtracted ==
    /\ pc = "classify"
    /\ raw_text = TextFallback
    /\ Len(financial_data) = 3
    /\ financial_data[1].line_number = 0 /\ financial_data[1].amounts = <<50000>>
    /\ financial_data[2].line_number = 2 /\ financial_data[2].amounts = <<420000>>
    /\ financial_data[3].line_number = 3 /\ financial_data[3].amounts = <<420000>>

\* C17: every AmountLine extract_financial_amounts returns has a non-empty
\* amounts list of strictly positive, pairwise distinct values (the line
\* $500 $500  yields the single value 500), max_amount is the largest of them,
\* line_number is the position of the line in the text split at newlines (lines
\* that are skipped still count), and the line numbers increase strictly along
\* the list.
AmountLinesWellFormed ==
    Extracted =>
        LET lines == SplitLines(raw_text)
        IN  /\ \A i \in DOMAIN financial_data :
                  LET row == financial_data[i]
                  IN  /\ row.amounts # <<>>
                      /\ \A j \in DOMAIN row.amounts : row.amounts[j] > 0
                      /\ \A j, k \in DOMAIN row.amounts :
                            j # k => row.amounts[j] # row.amounts[k]
                      /\ row.max_amount \in Range(row.amounts)
                      /\ \A a \in Range(row.amounts) : a <= row.max_amount
                      /\ row.line_number \in 0..(Len(lines) - 1)
                      /\ row.text = Strip(lines[row.line_number + 1])
                      /\ row.text = LTwice500 => row.amounts = <<50000>>
            /\ \A i, j \in DOMAIN financial_data :
                  i < j => financial_data[i].line_number < financial_data[j].line_number

\* a blank line, then  $500 $500 , then  $1,200 : two AmountLines, numbered 1
\* and 2, the first with the single amount 500
RepeatedAmountExtracted ==
    /\ pc = "classify"
    /\ raw_text = JoinLines(<<LBlank, LTwice500, L1200>>)
    /\ Len(financial_data) = 2
    /\ financial_data[1].line_number = 1
    /\ financial_data[1].amounts = <<50000>>
    /\ financial_data[1].max_amount = 50000
    /\ financial_data[2].line_number = 2

\* C18: is_total of an AmountLine is true exactly when the line's own text in
\* lower case contains total, suma or subtotal, or the raw line just before it
\* in the text (index line_number - 1, whatever that line is) contains one; a
\* keyword two or more raw lines earlier does not set it, and a hinted line
\* keeps all its amounts.
HintFromOwnOrPreviousLine ==
    Extracted =>
        LET lines == SplitLines(raw_text)
        IN  \A i \in DOMAIN financial_data :
                LET row == financial_data[i]
                    own == HasKeyword(row.text)
                    previous == row.line_number > 0 /\ HasKeyword(lines[row.line_number])
                IN  /\ row.is_total <=> (own \/ previous)
                    /\ (~own /\ ~previous /\ row.line_number > 1
                           /\ HasKeyword(lines[row.line_number - 1])) => ~row.is_total
                    /\ row.amounts = Unique(FoundAmounts(row.text))
                    /\ row.text = LTotalTwo => row.amounts = <<120000, 340000>>

\* the lines  SUMA  /  $1,000  /  $1,200  /  Total $1,200 $3,400 : the second is
\* hinted by the line before it, the third is not, the keyword being two lines
\* back, and the fourth is hinted by its own text and keeps both amounts
HintedLinesExtracted ==
    /\ pc = "classify"
    /\ raw_text = TextHinted
    /\ Len(financial_data) = 3
    /\ financial_data[1].line_number = 1 /\ financial_data[1].is_total
    /\ financial_data[2].line_number = 2 /\ ~financial_data[2].is_total
    /\ financial_data[3].line_number = 3 /\ financial_data[3].is_total
    /\ financial_data[3].amounts = <<120000, 340000>>

\* how many of the three counting tests of the report a summary passes
TestsPassed(r) ==
    (IF r.valid THEN 1 ELSE 0)
    + (IF ~r.valid /\ ~Contains(r.status, <<"[x]", "ERROR">>) THEN 1 ELSE 0)
    + (IF Contains(r.status, <<"[x]", "ERROR">>) THEN 1 ELSE 0)

\* C19: in the consolidated report the three counters partition the summaries:
\* each summary is counted by exactly one of valid_reports, invalid_reports and
\* error_reports, the three add up to total_images, and no summary with valid
\* true has a status that contains the error marker.
CountersPartitionResults ==
    /\ \A i \in DOMAIN results :
          /\ TestsPassed(results[i]) = 1
          /\ results[i].valid => ~Contains(results[i].status, <<"[x]", "ERROR">>)
    /\ (bpc = "idle" /\ report # None) =>
          /\ report.total_images = Len(results)
          /\ report.valid_reports + report.invalid_reports + report.error_reports
                = report.total_images
          /\ report.valid_reports
                = Cardinality({i \in DOMAIN results : results[i].valid})

\* a report over a valid summary and a summary with the error marker
ValidAndErrorCounted ==
    /\ bpc = "idle"
    /\ report # None
    /\ report.total_images = 2
    /\ report.valid_reports = 1
    /\ report.error_reports = 1
    /\ report.invalid_reports = 0

\* C20: calculation_matches of the total row says whether the sum of all
\* amounts of all other lines is within 10 of the largest amount.  With at least
\* two AmountLines it agrees with valid of validate_financial_calculations on
\* the same classification whenever every line carries exactly one amount, and
\* the two differ only when some data row carries more than one amount.
MatchFlagAgreesWithValid ==
    (pc = "compile" /\ Len(financial_data) >= 2) =>
        LET total == structure.total_rows[1]
            rows == structure.data_rows
            all_other == Sum([i \in DOMAIN rows |-> Sum(rows[i].amounts)])
        IN  /\ total.calculation_matches <=>
                  Abs(all_other - total.max_amount) <= Tolerance * 100
            /\ (\A i \in DOMAIN financial_data : Len(financial_data[i].amounts) = 1) =>
                  total.calculation_matches = validation.valid
            /\ total.calculation_matches # validation.valid =>
                  \E i \in DOMAIN rows : Len(rows[i].amounts) > 1

\* a data row with the amounts 10.00 and 20.00 against a total of 30.01: all
\* amounts add up to within 10 of the total, the row's largest amount does not
FlagsDifferOnRowWithTwoAmounts ==
    /\ pc = "compile"
    /\ Len(financial_data) = 2
    /\ structure.data_rows[1].amounts = <<1000, 2000>>
    /\ structure.total_rows[1].amounts = <<3001>>
    /\ structure.total_rows[1].calculation_matches
    /\ ~validation.valid

====
